---------------------------- MODULE Spec2Model ----------------------------
(***************************************************************************)
(* Volt-var characteristic construction, piecewise-linear lookup, the      *)
(* voltage-drop formula and the three AARV simulators of the gridhub       *)
(* notebooks (vqpoints.ipynb, vreg.ipynb and the AARV test notebook).      *)
(*                                                                         *)
(* Per-unit quantities (voltages, reactive and active power, slopes,       *)
(* decrement factors) are fixed-point numbers: the integer n stands for    *)
(* n / Scale.  Every product and quotient is rounded to the nearest unit,  *)
(* ties away from zero, which is symmetric under negation like the         *)
(* floating-point rounding of the source.  Times are whole seconds.        *)
(***************************************************************************)
EXTENDS Integers, Sequences, FiniteSets, TLC

Scale == 10^4

Abs(x) == IF x < 0 THEN -x ELSE x

\* a / b rounded to the nearest integer, ties away from zero (b # 0)
RDiv(a, b) ==
  LET q == (2 * Abs(a) + Abs(b)) \div (2 * Abs(b))
  IN  IF (a < 0) # (b < 0) THEN -q ELSE q

\* fixed-point product and quotient
Mul(a, b) == RDiv(a * b, Scale)
Div(a, b) == RDiv(a * Scale, b)

\* element k of a numpy array, with the source's 0-based index
At(arr, k) == arr[k + 1]

\* np.zeros(n), c * np.ones(n)
Filled(n, c) == [k \in 1..n |-> c]

\* arr with element k (0-based) set to x
Put(arr, k, x) == [arr EXCEPT ![k + 1] = x]

(***************************************************************************)
(* math.sqrt and math.exp                                                  *)
(***************************************************************************)
RECURSIVE SqrtBisect(_, _, _)
SqrtBisect(n, lo, hi) ==
  IF hi - lo <= 1 THEN lo
  ELSE LET mid == (lo + hi) \div 2
       IN  IF mid * mid <= n THEN SqrtBisect(n, mid, hi)
           ELSE SqrtBisect(n, lo, mid)

\* the integer nearest to the square root of n, 0 <= n < 2^30
SqrtInt(n) ==
  LET r == SqrtBisect(n, 0, 2^15)
  IN  IF n - r * r > r THEN r + 1 ELSE r

ExpTerms == 16

RECURSIVE ExpSeries(_, _, _)
\* sum of the Taylor terms k, k+1, ..., ExpTerms of exp(x), term being term k
ExpSeries(x, k, term) ==
  IF k > ExpTerms \/ term = 0 THEN 0
  ELSE term + ExpSeries(x, k + 1, RDiv(term * x, (k + 1) * Scale))

RECURSIVE Exp(_)
\* math.exp(x) for a fixed-point x: the series for -1 <= x <= 1, and
\* exp(x) = exp(x/2)^2 outside of that
Exp(x) ==
  IF x < -Scale \/ x > Scale THEN LET h == Exp(RDiv(x, 2)) IN Mul(h, h)
  ELSE ExpSeries(x, 0, Scale)

(***************************************************************************)
(* np.interp                                                                *)
(***************************************************************************)
RECURSIVE Bisect(_, _, _, _)
Bisect(key, arr, imin, imax) ==
  IF imin < imax
  THEN LET imid == imin + ((imax - imin) \div 2)
       IN  IF key >= At(arr, imid) THEN Bisect(key, arr, imid + 1, imax)
           ELSE Bisect(key, arr, imin, imid)
  ELSE imin - 1

RECURSIVE LinearSearch(_, _, _, _)
LinearSearch(key, arr, len, i) ==
  IF i < len /\ key >= At(arr, i) THEN LinearSearch(key, arr, len, i + 1)
  ELSE i - 1

LikelyInCacheSize == 8

\* the index j with arr[j] <= key < arr[j+1] for a sorted arr; -1 below the
\* first element, len above the last one
binary_search_with_guess(key, arr, len, guess0) ==
  IF key > At(arr, len - 1) THEN len
  ELSE IF key < At(arr, 0) THEN -1
  ELSE IF len <= 4 THEN LinearSearch(key, arr, len, 1)
  ELSE
    LET g1    == IF guess0 > len - 3 THEN len - 3 ELSE guess0
        guess == IF g1 < 1 THEN 1 ELSE g1
    IN  IF key < At(arr, guess)
        THEN IF key < At(arr, guess - 1)
             THEN Bisect(key, arr,
                         IF guess > LikelyInCacheSize
                            /\ key >= At(arr, guess - LikelyInCacheSize)
                         THEN guess - LikelyInCacheSize ELSE 0,
                         guess - 1)
             ELSE guess - 1
        ELSE IF key < At(arr, guess + 1) THEN guess
        ELSE IF key < At(arr, guess + 2) THEN guess + 1
        ELSE Bisect(key, arr, guess + 2,
                    IF guess < len - LikelyInCacheSize - 1
                       /\ key < At(arr, guess + LikelyInCacheSize)
                    THEN guess + LikelyInCacheSize ELSE len)

\* an interpolation that leaves fp[j] in the wrong direction
interp_Reflected(x, xp, fp) ==
  LET len == Len(xp)
      j   == binary_search_with_guess(x, xp, len, 0)
  IN  IF j = -1 THEN At(fp, 0)
      ELSE IF j = len THEN At(fp, len - 1)
      ELSE IF j = len - 1 THEN At(fp, j)
      ELSE IF At(xp, j) = x THEN At(fp, j)
      ELSE At(fp, j)
           - RDiv((At(fp, j + 1) - At(fp, j)) * (x - At(xp, j)),
                  At(xp, j + 1) - At(xp, j))

\* np.interp (x, xp, fp) for a scalar x
interp(x, xp, fp) ==
  LET len == Len(xp)
      j   == binary_search_with_guess(x, xp, len, 0)
  IN  IF j = -1 THEN At(fp, 0)
      ELSE IF j = len THEN At(fp, len - 1)
      ELSE IF j = len - 1 THEN At(fp, j)
      ELSE IF At(xp, j) = x THEN At(fp, j)
      ELSE At(fp, j)
           + RDiv((At(fp, j + 1) - At(fp, j)) * (x - At(xp, j)),
                  At(xp, j + 1) - At(xp, j))

(***************************************************************************)
(* set_characteristic                                                       *)
(***************************************************************************)
VrefLow  == 9500    \* 0.95
VrefHigh == 10500   \* 1.05
DeadbandLow  == 0
DeadbandHigh == 600 \* 0.06
Sentinel == 100     \* 0.01

(***************************************************************************)
(* Variants of the construction, each with one slip, that the properties   *)
(* of the table have to tell from the construction itself                  *)
(***************************************************************************)
\* V4 placed below V3
Characteristic_SignSlip(Vref, deadband, slope, qmax, qmin, qbias) ==
  LET Q1 == qmax
      Q2 == qbias
      Q3 == qbias
      Q4 == qmin
      V2 == Vref - Mul(Scale \div 2, deadband)
      V3 == Vref + Mul(Scale \div 2, deadband)
      V1 == V2 - Div(Q1 - Q2, slope)
      V4 == V3 + Div(Q4 - Q3, slope)
      VL == V1 - Sentinel
      VH == V4 + Sentinel
  IN  [vtable |-> <<VL, V1, V2, V3, V4, VH>>,
       qtable |-> <<Q1, Q1, Q2, Q3, Q4, Q4>>]

\* sentinel rows that do not repeat Q1 and Q4
Characteristic_OpenEnds(Vref, deadband, slope, qmax, qmin, qbias) ==
  LET Q1 == qmax
      Q2 == qbias
      Q3 == qbias
      Q4 == qmin
      V2 == Vref - Mul(Scale \div 2, deadband)
      V3 == Vref + Mul(Scale \div 2, deadband)
      V1 == V2 - Div(Q1 - Q2, slope)
      V4 == V3 - Div(Q4 - Q3, slope)
      VL == V1 - Sentinel
      VH == V4 + Sentinel
  IN  [vtable |-> <<VL, V1, V2, V3, V4, VH>>,
       qtable |-> <<Q2, Q1, Q2, Q3, Q4, Q3>>]

\* the deadband held at zero reactive power, as before qbias was added
Characteristic_NoBias(Vref, deadband, slope, qmax, qmin, qbias) ==
  LET Q1 == qmax
      Q2 == 0
      Q3 == 0
      Q4 == qmin
      V2 == Vref - Mul(Scale \div 2, deadband)
      V3 == Vref + Mul(Scale \div 2, deadband)
      V1 == V2 - Div(Q1 - Q2, slope)
      V4 == V3 - Div(Q4 - Q3, slope)
      VL == V1 - Sentinel
      VH == V4 + Sentinel
  IN  [vtable |-> <<VL, V1, V2, V3, V4, VH>>,
       qtable |-> <<Q1, Q1, Q2, Q3, Q4, Q4>>]

\* the whole deadband placed above Vref on the high side
Characteristic_LopsidedBand(Vref, deadband, slope, qmax, qmin, qbias) ==
  LET Q1 == qmax
      Q2 == qbias
      Q3 == qbias
      Q4 == qmin
      V2 == Vref - Mul(Scale \div 2, deadband)
      V3 == Vref + deadband
      V1 == V2 - Div(Q1 - Q2, slope)
      V4 == V3 - Div(Q4 - Q3, slope)
      VL == V1 - Sentinel
      VH == V4 + Sentinel
  IN  [vtable |-> <<VL, V1, V2, V3, V4, VH>>,
       qtable |-> <<Q1, Q1, Q2, Q3, Q4, Q4>>]

\* V1 and V4 placed as they are without a bias
Characteristic_UnbiasedEnds(Vref, deadband, slope, qmax, qmin, qbias) ==
  LET Q1 == qmax
      Q2 == qbias
      Q3 == qbias
      Q4 == qmin
      V2 == Vref - Mul(Scale \div 2, deadband)
      V3 == Vref + Mul(Scale \div 2, deadband)
      V1 == V2 - Div(Q1, slope)
      V4 == V3 - Div(Q4, slope)
      VL == V1 - Sentinel
      VH == V4 + Sentinel
  IN  [vtable |-> <<VL, V1, V2, V3, V4, VH>>,
       qtable |-> <<Q1, Q1, Q2, Q3, Q4, Q4>>]

\* the table of V and Q points from Vref, deadband, slope and the q limits
Characteristic(Vref, deadband, slope, qmax, qmin, qbias) ==
  LET Q1 == qmax
      Q2 == qbias
      Q3 == qbias
      Q4 == qmin
      V2 == Vref - Mul(Scale \div 2, deadband)
      V3 == Vref + Mul(Scale \div 2, deadband)
      V1 == V2 - Div(Q1 - Q2, slope)
      V4 == V3 - Div(Q4 - Q3, slope)
      VL == V1 - Sentinel
      VH == V4 + Sentinel
  IN  [vtable |-> <<VL, V1, V2, V3, V4, VH>>,
       qtable |-> <<Q1, Q1, Q2, Q3, Q4, Q4>>]

\* set_characteristic of vreg.ipynb and of the AARV test notebook: "this
\* version of the function does not check any limits"
set_characteristic(Vref, deadband, slope, qmax, qmin, qbias) ==
  Characteristic(Vref, deadband, slope, qmax, qmin, qbias)

\* what set_characteristic raises: the division by slope is a float division
SlopeRaised(slope) == IF slope = 0 THEN "ZeroDivisionError" ELSE "none"

\* the three corrections of the validating set_characteristic
CorrectVref(Vref) ==
  IF Vref < VrefLow THEN VrefLow
  ELSE IF Vref > VrefHigh THEN VrefHigh ELSE Vref

\* the limits of qbias taken the wrong way round
CorrectQbias_Swapped(qbias, qmax, qmin) ==
  IF qbias > qmax THEN qmin
  ELSE IF qbias < qmin THEN qmax ELSE qbias

CorrectQbias(qbias, qmax, qmin) ==
  IF qbias > qmax THEN qmax
  ELSE IF qbias < qmin THEN qmin ELSE qbias

CorrectDeadband(deadband) ==
  IF deadband < DeadbandLow THEN DeadbandLow
  ELSE IF deadband > DeadbandHigh THEN DeadbandHigh ELSE deadband

\* the messages printed by the validating set_characteristic, in order
Messages(Vref, deadband, qmax, qmin, qbias) ==
  (IF Vref < VrefLow
   THEN << [what |-> "Vref is too low", value |-> Vref, to |-> VrefLow] >>
   ELSE IF Vref > VrefHigh
   THEN << [what |-> "Vref is too high", value |-> Vref, to |-> VrefHigh] >>
   ELSE << >>)
  \o
  (IF qbias > qmax
   THEN << [what |-> "Qbias is too high", value |-> qbias, to |-> qmax] >>
   ELSE IF qbias < qmin
   THEN << [what |-> "Qbias is too low", value |-> qbias, to |-> qmin] >>
   ELSE << >>)
  \o
  (IF deadband < DeadbandLow
   THEN << [what |-> "deadband is too low", value |-> deadband,
            to |-> DeadbandLow] >>
   ELSE IF deadband > DeadbandHigh
   THEN << [what |-> "deadband is too high for category B",
            value |-> deadband, to |-> DeadbandHigh] >>
   ELSE << >>)

\* set_characteristic of vqpoints.ipynb: corrects Vref, qbias and deadband,
\* prints one message per correction and builds the table
vq_set_characteristic(Vref, deadband, slope, qmax, qmin, qbias) ==
  LET c == Characteristic(CorrectVref(Vref), CorrectDeadband(deadband), slope,
                          qmax, qmin, CorrectQbias(qbias, qmax, qmin))
  IN  [vtable |-> c.vtable, qtable |-> c.qtable,
       printed |-> Messages(Vref, deadband, qmax, qmin, qbias)]

(***************************************************************************)
(* get_voltage, with the global data of the Nantucket BESS example         *)
(***************************************************************************)
SBASE == 6000000
VBASE == 13200
\* ZBASE = VBASE*VBASE/SBASE = 29.04 ohms, fixed-point
ZBASE == RDiv((VBASE \div 100) * (VBASE \div 100) * Scale, SBASE \div Scale)
RPU == RDiv(12100 * Scale, ZBASE)
XPU == RDiv(28339 * Scale, ZBASE)
DP  == RDiv(6000 * Scale, SBASE \div 1000)
VSRC == Scale

\* the global DQ, which a later cell assigns again
VARIABLE DQ

\* DQ = 0.0 / SBASE at first, DQ = -0.1 later
DQFirst == 0
DQLater == -1000

\* what get_voltage raises: the division by vsrcpu is a float division
VoltageRaised(vsrcpu) == IF vsrcpu = 0 THEN "ZeroDivisionError" ELSE "none"

\* a reactive power taken from the global DQ, not from the argument
get_voltage_GlobalDQ(rpu, xpu, dP, dQ, vsrcpu) ==
  LET a1  == Mul(vsrcpu, vsrcpu) + Mul(rpu, dP) + Mul(xpu, DQ + dQ)
      a2  == Mul(xpu, dP) - Mul(rpu, DQ + dQ)
      d   == Div(Div(SqrtInt(a1 * a1 + a2 * a2), vsrcpu), vsrcpu) - Scale
      vpu == vsrcpu + d
  IN  [vpu |-> vpu, d |-> d]

\* the quadrature term with the sign of its second product slipped
get_voltage_SignSlip(rpu, xpu, dP, dQ, vsrcpu) ==
  LET a1  == Mul(vsrcpu, vsrcpu) + Mul(rpu, dP) + Mul(xpu, dQ)
      a2  == Mul(xpu, dP) + Mul(rpu, dQ)
      d   == Div(Div(SqrtInt(a1 * a1 + a2 * a2), vsrcpu), vsrcpu) - Scale
      vpu == vsrcpu + d
  IN  [vpu |-> vpu, d |-> d]

\* V and dV at the POC, clause 5.1.2 of IEEE 1547.2-2023
get_voltage(rpu, xpu, dP, dQ, vsrcpu) ==
  LET a1  == Mul(vsrcpu, vsrcpu) + Mul(rpu, dP) + Mul(xpu, dQ)
      a2  == Mul(xpu, dP) - Mul(rpu, dQ)
      d   == Div(Div(SqrtInt(a1 * a1 + a2 * a2), vsrcpu), vsrcpu) - Scale
      vpu == vsrcpu + d
  IN  [vpu |-> vpu, d |-> d]

(***************************************************************************)
(* Decrement factors and time grids shared by the simulators               *)
(***************************************************************************)
\* TauOL = Tresponse / 2.3026, for Tresponse of 1 to 10 seconds
TauOL(Tresponse) == RDiv(Tresponse * Scale * Scale, 23026)

\* n / T for a whole number n >= 0 and a fixed-point T, 0 < |T| < 10, by
\* long division
LongDiv(n, T) ==
  LET a == n * Scale
      m == Abs(T)
      q == (a \div m) * Scale + RDiv((a % m) * Scale, m)
  IN  IF T < 0 THEN -q ELSE q

\* IncOL = 1.0 - math.exp(-dt/TauOL)
IncOLOf(dt, Tresponse) == Scale - Exp(-LongDiv(dt, TauOL(Tresponse)))

\* 1.0 - math.exp(-dt/Tref) for a positive Tref
Decrement(dt, Tref) == Scale - Exp(-RDiv(dt * Scale, Tref))

\* an IncRef that follows the voltage at once where AARV is to be disabled
IncRefOf_Following(dt, Tref) == IF Tref > 0 THEN Decrement(dt, Tref) ELSE Scale

\* IncRef of show_bess_test and show_vsrc_test: 0.0 disables AARV
IncRefOf(dt, Tref) == IF Tref > 0 THEN Decrement(dt, Tref) ELSE 0

\* int(a / b): the quotient truncated towards zero (b # 0)
Trunc(a, b) ==
  LET q == Abs(a) \div Abs(b)
  IN  IF (a < 0) # (b < 0) THEN -q ELSE q

\* len(np.linspace (0, tmax, int(tmax / dt) + 1))
Npts(tmax, dt) == Trunc(tmax, dt) + 1

\* t[i] of np.linspace (0, tmax, npts), to the nearest second
TimeAt(i, tmax, npts) == IF npts = 1 THEN 0 ELSE RDiv(i * tmax, npts - 1)

\* no limiting of vref
LimitVref_Unlimited(v) == v

\* the limits on vref enforced by show_bess_test and show_vsrc_test
LimitVref(v) ==
  IF v > VrefHigh THEN VrefHigh
  ELSE IF v < VrefLow THEN VrefLow ELSE v

\* a filter that passes the target by what it should have left short
OpenLoop_Overshoot(q, qtarg, IncOL) == qtarg + Mul(qtarg - q, Scale - IncOL)

\* q[i+1] = q[i] + (qtarg - q[i]) * IncOL
OpenLoop(q, qtarg, IncOL) == q + Mul(qtarg - q, IncOL)

\* a step that rebuilds the table under either policy
BessTarget_Rebuilt(a, r, bShiftTable, vpoc, vrefi, verr) ==
  LET c == set_characteristic(vrefi, a.dB, a.K, a.Qmax, a.Qmin, 0)
  IN  [vtable |-> c.vtable, qtable |-> c.qtable,
       qtarg |-> interp(vpoc, c.vtable, c.qtable)]

\* qtarg of one step of show_bess_test and show_vsrc_test, with the table
\* the step leaves behind
BessTarget(a, r, bShiftTable, vpoc, vrefi, verr) ==
  IF bShiftTable
  THEN LET c == set_characteristic(vrefi, a.dB, a.K, a.Qmax, a.Qmin, 0)
       IN  [vtable |-> c.vtable, qtable |-> c.qtable,
            qtarg |-> interp(vpoc, c.vtable, c.qtable)]
  ELSE [vtable |-> r.vtable, qtable |-> r.qtable,
        qtarg |-> interp(a.Vref + verr, r.vtable, r.qtable)]

\* one pass of the loop body shared by show_bess_test and show_vsrc_test
LoopBody(a, r, bShiftTable, p, vsrc) ==
  LET i     == r.i
      vpoc  == get_voltage(RPU, XPU, p, At(r.q, i), vsrc).vpu
      verr  == vpoc - At(r.vref, i)
      vnext == LimitVref(At(r.vref, i) + Mul(verr, r.IncRef))
      t     == BessTarget(a, r, bShiftTable, vpoc, At(r.vref, i), verr)
  IN  [r EXCEPT !.i = i + 1,
                !.vpoc = Put(r.vpoc, i, vpoc),
                !.verr = Put(r.verr, i, verr),
                !.vref = Put(r.vref, i + 1, vnext),
                !.vtable = t.vtable,
                !.qtable = t.qtable,
                !.qtarg = t.qtarg,
                !.q = Put(r.q, i + 1, OpenLoop(At(r.q, i), t.qtarg, r.IncOL))]

\* the last voltage points left as they were initialized
LastPoints_Skipped(r, p, vsrc) == r

\* the two statements after the loop: the last voltage points
LastPoints(r, p, vsrc) ==
  LET n    == r.npts - 1
      vpoc == get_voltage(RPU, XPU, p, At(r.q, n), vsrc).vpu
  IN  [r EXCEPT !.vpoc = Put(r.vpoc, n, vpoc),
                !.verr = Put(r.verr, n, vpoc - At(r.vref, n))]

(***************************************************************************)
(* show_bess_test                                                           *)
(***************************************************************************)
PStart == 1

bess_tmax(a) == IF a.Tref > 0 THEN a.numTrefs * a.Tref ELSE 300

\* a ramp that starts at t = 0
bess_p_FromStart(a, i) ==
  LET tmax == bess_tmax(a)
      npts == Npts(tmax, a.dt)
  IN  interp(TimeAt(i, tmax, npts),
             <<0, 0, a.RampTime, TimeAt(npts - 1, tmax, npts)>>,
             <<0, 0, DP, DP>>)

\* p[i]: the linear ramp in real power
bess_p(a, i) ==
  LET tmax == bess_tmax(a)
      npts == Npts(tmax, a.dt)
      pend == PStart + a.RampTime
  IN  interp(TimeAt(i, tmax, npts),
             <<0, PStart, pend, TimeAt(npts - 1, tmax, npts)>>,
             <<0, 0, DP, DP>>)

\* vsrc = np.ones(npts)
bess_vsrc(a, i) == Scale

\* a start with q = np.ones(npts), as vsrc and vpoc have it
bess_init_Ones(a, bShiftTable) ==
  LET npts == Npts(bess_tmax(a), a.dt)
      c    == set_characteristic(a.Vref, a.dB, a.K, a.Qmax, a.Qmin, a.Qbias)
  IN  [i |-> 0, npts |-> npts,
       IncRef |-> IncRefOf(a.dt, a.Tref),
       IncOL |-> IncOLOf(a.dt, a.Tresponse),
       vtable |-> c.vtable, qtable |-> c.qtable, qtarg |-> 0,
       q |-> Filled(npts, Scale),
       vref |-> Filled(npts, a.Vref),
       vpoc |-> Filled(npts, Scale),
       verr |-> Filled(npts, 0)]

\* the statements of show_bess_test before its loop
bess_init(a, bShiftTable) ==
  LET npts == Npts(bess_tmax(a), a.dt)
      c    == set_characteristic(a.Vref, a.dB, a.K, a.Qmax, a.Qmin, a.Qbias)
  IN  [i |-> 0, npts |-> npts,
       IncRef |-> IncRefOf(a.dt, a.Tref),
       IncOL |-> IncOLOf(a.dt, a.Tresponse),
       vtable |-> c.vtable, qtable |-> c.qtable, qtarg |-> 0,
       q |-> Filled(npts, 0),
       vref |-> Filled(npts, a.Vref),
       vpoc |-> Filled(npts, Scale),
       verr |-> Filled(npts, 0)]

bess_step(a, r, bShiftTable) ==
  LoopBody(a, r, bShiftTable, bess_p(a, r.i), bess_vsrc(a, r.i))

bess_last(a, r) ==
  LastPoints(r, bess_p(a, r.npts - 1), bess_vsrc(a, r.npts - 1))

(***************************************************************************)
(* show_vsrc_test                                                           *)
(***************************************************************************)
\* Tref as used for the time axis: 300 s when AARV is disabled
vsrc_Tref(a) == IF a.Tref > 0 THEN a.Tref ELSE 300

vsrc_tmax(a) == 12 * vsrc_Tref(a)

\* vsrc[i]: the trapezoidal source voltage, +/- 0.02 around 1.0
vsrc_vsrc(a, i) ==
  LET T    == vsrc_Tref(a)
      tmax == vsrc_tmax(a)
      npts == Npts(tmax, a.dt)
  IN  interp(TimeAt(i, tmax, npts),
             <<0, 2 * T, 3 * T, 5 * T, 7 * T, 9 * T, 10 * T,
               TimeAt(npts - 1, tmax, npts)>>,
             <<Scale, Scale, 10200, 10200, 9800, 9800, Scale, Scale>>)

\* p = DP * np.ones(npts)
vsrc_p(a, i) == DP

StaticIterations == 10

RECURSIVE StaticSettle(_, _, _, _, _)
\* the iterations on the static volt-var characteristic: [q0, v0] after n more
StaticSettle(n, q0, v0, c, vsrc0) ==
  IF n = 0 THEN [q0 |-> q0, v0 |-> v0]
  ELSE LET v  == get_voltage(RPU, XPU, DP, q0, vsrc0).vpu
           q1 == interp(v, c.vtable, c.qtable)
       IN  StaticSettle(n - 1, q0 + Mul(Scale \div 2, q1 - q0), v, c, vsrc0)

\* the statements of show_vsrc_test before its loop
vsrc_init(a, bShiftTable) ==
  LET IncRef == IncRefOf(a.dt, a.Tref)
      npts   == Npts(vsrc_tmax(a), a.dt)
      c      == set_characteristic(a.Vref, a.dB, a.K, a.Qmax, a.Qmin, a.Qbias)
      s      == IF IncRef <= 0
                THEN StaticSettle(StaticIterations, 0, Scale, c, vsrc_vsrc(a, 0))
                ELSE [q0 |-> a.Qbias,
                      v0 |-> get_voltage(RPU, XPU, DP, a.Qbias,
                                         vsrc_vsrc(a, 0)).vpu]
  IN  [i |-> 0, npts |-> npts,
       IncRef |-> IncRef,
       IncOL |-> IncOLOf(a.dt, a.Tresponse),
       vtable |-> c.vtable, qtable |-> c.qtable, qtarg |-> 0,
       q |-> Filled(npts, s.q0),
       vref |-> Filled(npts, a.Vinit),
       vpoc |-> Filled(npts, s.v0),
       verr |-> Filled(npts, 0)]

vsrc_step(a, r, bShiftTable) ==
  LoopBody(a, r, bShiftTable, vsrc_p(a, r.i), vsrc_vsrc(a, r.i))

vsrc_last(a, r) ==
  LastPoints(r, vsrc_p(a, r.npts - 1), vsrc_vsrc(a, r.npts - 1))

(***************************************************************************)
(* show_aarv_test                                                           *)
(***************************************************************************)
aarv_tmax(a) == a.Tref

\* the statements of show_aarv_test before its loop
aarv_init(a, bShiftTable) ==
  LET npts == Npts(aarv_tmax(a), a.dt)
      c    == set_characteristic(a.Vref, a.dB, a.K, a.Qmax, a.Qmin, 0)
      v0   == RDiv(At(c.vtable, 1) + At(c.vtable, 2), 2)
  IN  [i |-> 1, npts |-> npts,
       IncRef |-> Decrement(a.dt, a.Tref),
       IncOL |-> IncOLOf(a.dt, a.Tresponse),
       vtable |-> c.vtable, qtable |-> c.qtable, qtarg |-> 0,
       v0 |-> v0, q0 |-> interp(v0, c.vtable, c.qtable),
       q |-> Filled(npts, 0), qpeak |-> 0,
       Vset |-> a.Vref, Vref |-> a.Vref, verr |-> 0]

\* a pass that looks the target up before it adapts the reference
aarv_step_LookupFirst(a, r, bShiftTable) ==
  LET i    == r.i
      verr == r.v0 - r.Vref
      Vref == r.Vref + Mul(verr, r.IncRef)
      c    == IF bShiftTable
              THEN set_characteristic(r.Vref, a.dB, a.K, a.Qmax, a.Qmin, 0)
              ELSE [vtable |-> r.vtable, qtable |-> r.qtable]
      qtarg == IF bShiftTable
               THEN interp(r.v0, c.vtable, c.qtable)
               ELSE interp(r.v0 + (r.Vset - r.Vref), r.vtable, r.qtable)
      qi   == OpenLoop(At(r.q, i - 1), qtarg, r.IncOL)
  IN  [r EXCEPT !.i = i + 1, !.verr = verr, !.Vref = Vref,
                !.vtable = c.vtable, !.qtable = c.qtable, !.qtarg = qtarg,
                !.q = Put(r.q, i, qi),
                !.qpeak = IF Abs(qi) > r.qpeak THEN Abs(qi) ELSE r.qpeak]

\* one pass of the loop of show_aarv_test (either branch of bShiftTable)
aarv_step(a, r, bShiftTable) ==
  LET i    == r.i
      verr == r.v0 - r.Vref
      Vref == r.Vref + Mul(verr, r.IncRef)
      c    == IF bShiftTable
              THEN set_characteristic(Vref, a.dB, a.K, a.Qmax, a.Qmin, 0)
              ELSE [vtable |-> r.vtable, qtable |-> r.qtable]
      qtarg == IF bShiftTable
               THEN interp(r.v0, c.vtable, c.qtable)
               ELSE interp(r.v0 + (r.Vset - Vref), r.vtable, r.qtable)
      qi   == OpenLoop(At(r.q, i - 1), qtarg, r.IncOL)
  IN  [r EXCEPT !.i = i + 1, !.verr = verr, !.Vref = Vref,
                !.vtable = c.vtable, !.qtable = c.qtable, !.qtarg = qtarg,
                !.q = Put(r.q, i, qi),
                !.qpeak = IF Abs(qi) > r.qpeak THEN Abs(qi) ELSE r.qpeak]

\* after the loop: "remove any shift of vtable, qtable"
aarv_last(a, r) ==
  LET c == set_characteristic(r.Vset, a.dB, a.K, a.Qmax, a.Qmin, 0)
  IN  [r EXCEPT !.vtable = c.vtable, !.qtable = c.qtable]

(***************************************************************************)
(* show_characteristic                                                      *)
(***************************************************************************)
\* math.exp raises OverflowError for an argument above 709.78
ExpOverflow == 710

\* what math.exp(-dt/T) raises for dt in seconds and a fixed-point T
ExpRaised(dt, T) ==
  IF T = 0 THEN "ZeroDivisionError"
  ELSE IF Trunc(-dt * Scale, T) >= ExpOverflow THEN "OverflowError"
  ELSE "none"

\* the horizon of simulator sim
Tmax(sim, a) ==
  IF sim = "aarv" THEN aarv_tmax(a)
  ELSE IF sim = "bess" THEN bess_tmax(a) ELSE vsrc_tmax(a)

\* the exception that ends simulator sim before its loop, or "none": from
\* IncRef, IncOL, set_characteristic, int(tmax / dt), np.linspace and t[-1],
\* in this order (for show_aarv_test the IndexError is that of q[-1], after
\* a loop of no passes)
Raised(sim, a) ==
  LET incRef == IF sim = "aarv" \/ a.Tref > 0
                THEN ExpRaised(a.dt, a.Tref * Scale) ELSE "none"
      incOL  == ExpRaised(a.dt, TauOL(a.Tresponse))
  IN  IF incRef # "none" THEN incRef
      ELSE IF incOL # "none" THEN incOL
      ELSE IF SlopeRaised(a.K) # "none" THEN SlopeRaised(a.K)
      ELSE IF a.dt = 0 THEN "ZeroDivisionError"
      ELSE IF Trunc(Tmax(sim, a), a.dt) + 1 < 0 THEN "ValueError"
      ELSE IF Trunc(Tmax(sim, a), a.dt) + 1 = 0 THEN "IndexError"
      ELSE "none"

\* the locals of the two runs of a simulator call, or the exception
Called(sim, a) ==
  IF Raised(sim, a) # "none"
  THEN [b \in BOOLEAN |-> [raised |-> Raised(sim, a)]]
  ELSE [b \in BOOLEAN |->
          IF sim = "aarv" THEN aarv_init(a, b)
          ELSE IF sim = "bess" THEN bess_init(a, b) ELSE vsrc_init(a, b)]

\* where a simulator call goes: into its loop, or out with the exception
Entered(sim, a) == IF Raised(sim, a) # "none" THEN "failed" ELSE sim

\* the number of equal voltage intervals the characteristic is evaluated
\* over (500 in the notebooks)
PlotIntervals == 20

\* np.linspace (vmin, vmax, PlotIntervals + 1)
Linspace(vmin, vmax) ==
  [k \in 1..(PlotIntervals + 1) |->
     vmin + RDiv((k - 1) * (vmax - vmin), PlotIntervals)]

\* show_characteristic of notebook nb when set_characteristic raises: what
\* was printed before, and no table
show_characteristic_raised(nb, Vref, deadband, slope, qmax, qmin, qbias) ==
  [nb |-> nb, raised |-> SlopeRaised(slope),
   printed |-> IF nb = "vqpoints"
               THEN Messages(Vref, deadband, qmax, qmin, qbias) ELSE << >>]

\* show_characteristic of notebook nb: the table of set_characteristic, what
\* it printed, and the interpolated curve
show_characteristic(nb, Vref, deadband, slope, qmax, qmin, qbias) ==
  LET c == IF nb = "vqpoints"
           THEN vq_set_characteristic(Vref, deadband, slope, qmax, qmin, qbias)
           ELSE [vtable |-> set_characteristic(Vref, deadband, slope, qmax,
                                               qmin, qbias).vtable,
                 qtable |-> set_characteristic(Vref, deadband, slope, qmax,
                                               qmin, qbias).qtable,
                 printed |-> << >>]
      v == Linspace(At(c.vtable, 0) - Sentinel, At(c.vtable, 5) + Sentinel)
  IN  [nb |-> nb, raised |-> "none", vtable |-> c.vtable,
       qtable |-> c.qtable, printed |-> c.printed, v |-> v,
       q |-> [k \in 1..Len(v) |-> interp(v[k], c.vtable, c.qtable)]]

(***************************************************************************)
(* The notebook session: one call at a time.  A simulator call is followed *)
(* under both values of bShiftTable, run[TRUE] and run[FALSE], which take  *)
(* the same remaining arguments and advance together.                      *)
(***************************************************************************)
VARIABLES
  pc,    \* "idle", "characteristic", "voltage", "aarv", "bess", "vsrc",
         \* "done" or "failed"
  args,  \* the arguments of the call in progress
  chr,   \* what show_characteristic produced
  volt,  \* what get_voltage returned
  run,   \* the local variables of the simulator, per bShiftTable
  kept   \* the arguments and arrays of an earlier simulator call, as plotted

vars == <<pc, args, chr, volt, run, DQ, kept>>

None == [none |-> TRUE]

\* [dB, K, Qmax, Qmin] of the notebooks' examples, and some others
DefaultA    == [dB |-> 0,   K |-> 25000,  Qmax |-> 2500, Qmin |-> -2500]
AggressiveA == [dB |-> 0,   K |-> 125000, Qmax |-> 2500, Qmin |-> -2500]
DefaultB    == [dB |-> 400, K |-> 73333,  Qmax |-> 4400, Qmin |-> -4400]
AggressiveB == [dB |-> 0,   K |-> 220000, Qmax |-> 4400, Qmin |-> -4400]
Rule14H     == [dB |-> 600, K |-> 143333, Qmax |-> 4400, Qmin |-> -4400]
NoVoltVar   == [dB |-> 0,   K |-> 220000, Qmax |-> 0,    Qmin |-> 0]
Unequal     == [dB |-> 200, K |-> 220000, Qmax |-> 4400, Qmin |-> -2500]
Supplying   == [dB |-> 400, K |-> 220000, Qmax |-> 4400, Qmin |-> 1000]
WideBand    == [dB |-> 1000, K |-> 73333, Qmax |-> 4400, Qmin |-> -4400]

Examples == {DefaultA, AggressiveA, DefaultB, AggressiveB, Rule14H,
             NoVoltVar, Unequal, Supplying, WideBand}

\* arguments tried for show_characteristic
CharVrefs   == {9000, 9500, 9600, 10000, 10136, 10500, 11000}
CharBands   == {-200, 0, 400, 600, 1000}
CharSlopes  == {-25000, 0, 25000, 73333, 125000, 143333, 220000}
CharLimits  == {<<2500, -2500>>, <<4400, -4400>>, <<4400, -2500>>, <<0, 0>>,
                <<-2500, 2500>>}
CharBiases  == {-5000, -1000, 0, 1000, 5000}

\* arguments tried for the simulators
SimVrefs    == {9000, 9500, 10000, 10500, 11000}
SimBiases   == {-1000, 0, 2000}
SimTimings  == {[Tref |-> 2, dt |-> 1], [Tref |-> 4, dt |-> 1],
                [Tref |-> 0, dt |-> 100]}
\* a dt of 2 s puts no point of the time axis at the start of the ramp
BessTimings == SimTimings \union {[Tref |-> 4, dt |-> 2]}
\* with a dt of 5 s a Tresponse of 1 s leaves no open-loop delay
AarvTimings == SimTimings \union {[Tref |-> 10, dt |-> 5],
                                  [Tref |-> 12, dt |-> 5],
                                  [Tref |-> 16, dt |-> 1],
                                  [Tref |-> 30, dt |-> 5]}
VsrcVrefs   == {9500, 10000, 11000}
VsrcTimings == {[Tref |-> 2, dt |-> 1], [Tref |-> 0, dt |-> 300]}
Responses   == {1, 5}
Ramps       == {1, 2, 5}
MaxNumTrefs == 2
Vinits      == {10000, 10369, 10463}

\* arguments replaced by a value that is not positive
AsPassed    == [asPassed |-> TRUE]
Replaced    == {AsPassed, [K |-> 0], [K |-> -25000], [Tresponse |-> 0],
                [Tresponse |-> -5], [dt |-> 0], [dt |-> -1], [Tref |-> -2]}
\* show_vsrc_test runs too long for the magnitudes a negative Tresponse
\* leads to
VsrcReplaced == Replaced \ {[Tresponse |-> -5]}
Replace(a, o) == [k \in DOMAIN a |-> IF k \in DOMAIN o THEN o[k] ELSE a[k]]

\* the calls that are tried with a replaced argument
Plain(a) ==
  /\ a.Vref = 10000
  /\ a.Qbias = 0
  /\ a.Qmax = 4400 /\ a.Qmin = -4400

\* arguments tried for get_voltage
Impedances  == {<<RPU, XPU>>, <<0, 0>>, <<2000, 5000>>}
ActivePowers   == {-DP, 0, DP}
ReactivePowers == {-4400, -1000, 0, 1000, 4400}
SourceVoltages == {-Scale, 0, 9800, Scale, 10200}

Init ==
  /\ pc = "idle"
  /\ args = None
  /\ chr = None
  /\ volt = None
  /\ run = None
  /\ DQ = DQFirst
  /\ kept = None

\* a cell that calls get_voltage
CallGetVoltage ==
  /\ pc = "idle"
  /\ \E z \in Impedances, dP \in ActivePowers, dQ \in ReactivePowers,
        vsrcpu \in SourceVoltages :
       /\ args' = [sim |-> "get_voltage", rpu |-> z[1], xpu |-> z[2],
                   dP |-> dP, dQ |-> dQ, vsrcpu |-> vsrcpu]
       /\ volt' = IF VoltageRaised(vsrcpu) # "none"
                  THEN [raised |-> VoltageRaised(vsrcpu)]
                  ELSE get_voltage(z[1], z[2], dP, dQ, vsrcpu)
       /\ pc' = IF VoltageRaised(vsrcpu) # "none" THEN "failed"
                ELSE "voltage"
  /\ UNCHANGED <<chr, run, DQ, kept>>

CallShowCharacteristic ==
  /\ pc = "idle"
  /\ \E nb \in {"vqpoints", "vreg"}, Vref \in CharVrefs, dB \in CharBands,
        K \in CharSlopes, lim \in CharLimits, qbias \in CharBiases :
       /\ args' = [sim |-> "characteristic", nb |-> nb, Vref |-> Vref,
                   dB |-> dB, K |-> K, Qmax |-> lim[1], Qmin |-> lim[2],
                   Qbias |-> qbias]
       /\ chr' = IF SlopeRaised(K) # "none"
                 THEN show_characteristic_raised(nb, Vref, dB, K, lim[1],
                                                 lim[2], qbias)
                 ELSE show_characteristic(nb, Vref, dB, K, lim[1], lim[2],
                                          qbias)
       /\ pc' = IF SlopeRaised(K) # "none" THEN "failed"
                ELSE "characteristic"
  /\ UNCHANGED <<volt, run, DQ, kept>>

CallShowAarvTest ==
  /\ pc = "idle"
  /\ \E Vref \in SimVrefs, e \in Examples, tm \in AarvTimings,
        Tresponse \in Responses, o \in Replaced :
       LET a == [sim |-> "aarv", Vref |-> Vref, dB |-> e.dB, K |-> e.K,
                 Qmax |-> e.Qmax, Qmin |-> e.Qmin, Qbias |-> 0,
                 Tref |-> tm.Tref, Tresponse |-> Tresponse, dt |-> tm.dt]
       IN  /\ o # AsPassed => (Plain(a) /\ tm.Tref = 2)
           /\ args' = Replace(a, o)
           /\ run' = Called("aarv", args')
           /\ pc' = Entered("aarv", args')
  /\ UNCHANGED <<chr, volt, DQ, kept>>

CallShowBessTest ==
  /\ pc = "idle"
  /\ \E Vref \in SimVrefs, e \in Examples, tm \in BessTimings,
        Tresponse \in Responses, numTrefs \in 1..MaxNumTrefs,
        RampTime \in Ramps, Qbias \in SimBiases,
        o \in Replaced :
       LET a == [sim |-> "bess", Vref |-> Vref, dB |-> e.dB, K |-> e.K,
                 Qmax |-> e.Qmax, Qmin |-> e.Qmin, Qbias |-> Qbias,
                 Tref |-> tm.Tref, Tresponse |-> Tresponse, dt |-> tm.dt,
                 numTrefs |-> numTrefs, RampTime |-> RampTime]
       IN  /\ o # AsPassed =>
                /\ Plain(a) /\ numTrefs = 1
                /\ tm.Tref = (IF "Tref" \in DOMAIN o THEN 0 ELSE 2)
           /\ args' = Replace(a, o)
           /\ run' = Called("bess", args')
           /\ pc' = Entered("bess", args')
  /\ UNCHANGED <<chr, volt, DQ, kept>>

CallShowVsrcTest ==
  /\ pc = "idle"
  /\ \E Vref \in VsrcVrefs, e \in Examples, tm \in VsrcTimings,
        Tresponse \in Responses, Vinit \in Vinits, Qbias \in SimBiases,
        o \in VsrcReplaced :
       LET a == [sim |-> "vsrc", Vref |-> Vref, dB |-> e.dB, K |-> e.K,
                 Qmax |-> e.Qmax, Qmin |-> e.Qmin, Qbias |-> Qbias,
                 Tref |-> tm.Tref, Tresponse |-> Tresponse, dt |-> tm.dt,
                 Vinit |-> Vinit]
       IN  /\ o # AsPassed =>
                (Plain(a) /\ tm.Tref = (IF "Tref" \in DOMAIN o THEN 0 ELSE 2))
           /\ args' = Replace(a, o)
           /\ run' = Called("vsrc", args')
           /\ pc' = Entered("vsrc", args')
  /\ UNCHANGED <<chr, volt, DQ, kept>>

\* a loop over range(npts-1) where show_aarv_test has range(1, npts)
Looping_FromZero(sim, r) == r.i < r.npts - 1

\* whether the loop of the simulator has passes left
Looping(sim, r) ==
  IF sim = "aarv" THEN r.i < r.npts ELSE r.i < r.npts - 1

Step ==
  /\ pc \in {"aarv", "bess", "vsrc"}
  /\ Looping(pc, run[TRUE])
  /\ run' = [b \in BOOLEAN |->
               IF pc = "aarv" THEN aarv_step(args, run[b], b)
               ELSE IF pc = "bess" THEN bess_step(args, run[b], b)
               ELSE vsrc_step(args, run[b], b)]
  /\ UNCHANGED <<pc, args, chr, volt, DQ, kept>>

Finish ==
  /\ pc \in {"aarv", "bess", "vsrc"}
  /\ ~Looping(pc, run[TRUE])
  /\ run' = [b \in BOOLEAN |->
               IF pc = "aarv" THEN aarv_last(args, run[b])
               ELSE IF pc = "bess" THEN bess_last(args, run[b])
               ELSE vsrc_last(args, run[b])]
  /\ pc' = "done"
  /\ UNCHANGED <<args, chr, volt, DQ, kept>>

\* the cell has run; nothing of the call is kept
Return ==
  /\ pc \in {"characteristic", "voltage", "done", "failed"}
  /\ pc' = "idle"
  /\ args' = None
  /\ chr' = None
  /\ volt' = None
  /\ run' = None
  /\ UNCHANGED <<DQ, kept>>

(***************************************************************************)
(* The cells of vreg.ipynb run in any order and any number of times, with  *)
(* the outputs of one simulator call kept for comparison.                  *)
(***************************************************************************)
\* simulator calls of the notebook, on a time scale of seconds
SessionCalls ==
  LET e == AggressiveB
      a == [Vref |-> Scale, dB |-> e.dB, K |-> e.K, Qmax |-> e.Qmax,
            Qmin |-> e.Qmin, Tref |-> 2, dt |-> 1]
  IN  {a @@ [sim |-> "aarv", Qbias |-> 0, Tresponse |-> 5],
       a @@ [sim |-> "bess", Qbias |-> 0, Tresponse |-> 1, numTrefs |-> 1,
             RampTime |-> 1],
       a @@ [sim |-> "bess", Qbias |-> 0, Tresponse |-> 5, numTrefs |-> 1,
             RampTime |-> 1],
       a @@ [sim |-> "vsrc", Qbias |-> DQLater, Tresponse |-> 5,
             Vinit |-> 10369]}

\* the cell of the globals: it assigns DQ, calls get_voltage and plots the
\* default characteristic
GlobalsCell ==
  /\ pc = "idle"
  /\ DQ' = DQFirst
  /\ args' = [sim |-> "get_voltage", rpu |-> RPU, xpu |-> XPU, dP |-> DP,
              dQ |-> DQ', vsrcpu |-> VSRC]
  /\ volt' = get_voltage(RPU, XPU, DP, DQ', VSRC)
  /\ chr' = show_characteristic("vreg", Scale, AggressiveB.dB, AggressiveB.K,
                              AggressiveB.Qmax, AggressiveB.Qmin, 0)
  /\ pc' = "voltage"
  /\ UNCHANGED <<run, kept>>

\* the cell that assigns DQ = -0.1 and calls get_voltage
BiasCell ==
  /\ pc = "idle"
  /\ DQ' = DQLater
  /\ args' = [sim |-> "get_voltage", rpu |-> RPU, xpu |-> XPU, dP |-> DP,
              dQ |-> DQ', vsrcpu |-> VSRC]
  /\ volt' = get_voltage(RPU, XPU, DP, DQ', VSRC)
  /\ pc' = "voltage"
  /\ UNCHANGED <<chr, run, kept>>

\* a cell that calls a simulator
SimulatorCell ==
  /\ pc = "idle"
  /\ \E a \in SessionCalls :
       /\ args' = a
       /\ run' = Called(a.sim, a)
       /\ pc' = Entered(a.sim, a)
  /\ UNCHANGED <<chr, volt, DQ, kept>>

\* the arrays of the call are kept aside, with the DQ of the moment
Keep ==
  /\ pc = "done"
  /\ kept = None
  /\ kept' = [args |-> args, run |-> run, DQ |-> DQ, since |-> {}]
  /\ pc' = "idle"
  /\ args' = None
  /\ chr' = None
  /\ volt' = None
  /\ run' = None
  /\ UNCHANGED DQ

\* the cell has run; it is noted as one that ran since the arrays were kept
CellReturn ==
  /\ pc \in {"voltage", "done", "failed"}
  /\ kept' = IF kept = None THEN kept
             ELSE [kept EXCEPT !.since = @ \union {args.sim}]
  /\ pc' = "idle"
  /\ args' = None
  /\ chr' = None
  /\ volt' = None
  /\ run' = None
  /\ UNCHANGED DQ

SessionNext ==
  \/ GlobalsCell
  \/ BiasCell
  \/ SimulatorCell
  \/ Step
  \/ Finish
  \/ Keep
  \/ CellReturn

Session == Init /\ [][SessionNext]_vars

Next ==
  \/ CallGetVoltage
  \/ CallShowCharacteristic
  \/ CallShowAarvTest
  \/ CallShowBessTest
  \/ CallShowVsrcTest
  \/ Step
  \/ Finish
  \/ Return

Spec == Init /\ [][Next]_vars

(***************************************************************************)
(* Properties                                                               *)
(***************************************************************************)
Simulating == pc \in {"aarv", "bess", "vsrc", "done"}

\* the reference voltages a run has produced so far: the scalar Vref of
\* show_aarv_test, the array vref of the other two
VrefOf(r) == IF args.sim = "aarv" THEN <<r.Vref>> ELSE r.vref

InRange(x, lo, hi) == lo <= x /\ x <= hi

\* C1: for identical inputs the run with bShiftTable=True and the run with
\* bShiftTable=False produce the same Q[i] and the same Vref[i] at every
\* step, in each of the three simulators.
C1_PolicyEquivalence ==
  Simulating =>
    /\ run[TRUE].q = run[FALSE].q
    /\ VrefOf(run[TRUE]) = VrefOf(run[FALSE])

\* The two policies do agree for as long as Qbias is zero and the table is
\* monotone (Qmin <= 0 <= Qmax).
PolicyEquivalenceWithoutBias ==
  (Simulating /\ args.Qbias = 0 /\ args.Qmin <= 0 /\ 0 <= args.Qmax) =>
    /\ run[TRUE].q = run[FALSE].q
    /\ VrefOf(run[TRUE]) = VrefOf(run[FALSE])

\* the reference the closed-loop simulators start from
InitialReference == IF args.sim = "vsrc" THEN args.Vinit ELSE args.Vref

\* C2: in show_bess_test and show_vsrc_test, when the initial reference is in
\* [0.95, 1.05] then Vref[i] is in [0.95, 1.05] at every step i, for either
\* policy and any Tref.
C2_BoundedAdaptation ==
  (Simulating /\ args.sim \in {"bess", "vsrc"}
     /\ InRange(InitialReference, VrefLow, VrefHigh)) =>
    \A b \in BOOLEAN : \A k \in 1..Len(run[b].vref) :
      InRange(run[b].vref[k], VrefLow, VrefHigh)

\* a step of a closed-loop run whose unlimited reference left the range and
\* was brought back to the limit
C2_Witness ==
  /\ pc \in {"bess", "vsrc"}
  /\ InRange(InitialReference, VrefLow, VrefHigh)
  /\ \E b \in BOOLEAN : \E k \in 0..(run[b].i - 1) :
       /\ At(run[b].vref, k) + Mul(At(run[b].verr, k), run[b].IncRef) > VrefHigh
       /\ At(run[b].vref, k + 1) = VrefHigh

\* the ranges the standard permits for the parameters of a characteristic
PermittedParameters ==
  /\ InRange(args.Vref, VrefLow, VrefHigh)
  /\ InRange(args.dB, DeadbandLow, DeadbandHigh)
  /\ args.K > 0
  /\ args.Qmax >= 0
  /\ args.Qmin <= 0

\* C3: in show_aarv_test, which applies no limit, Vref stays in [0.95, 1.05]
\* at every step for every characteristic with permitted parameters, under
\* either policy.
C3_StepTestBounded ==
  (Simulating /\ args.sim = "aarv" /\ PermittedParameters) =>
    \A b \in BOOLEAN : InRange(run[b].Vref, VrefLow, VrefHigh)

\* C4: in every simulator, if Qmin <= Q[0] <= Qmax, Qmin <= Qbias <= Qmax,
\* K > 0 and 0 < IncOL <= 1, then Qmin <= Q[i] <= Qmax at every step i, for
\* either policy.
C4_ReactivePowerWithinLimits ==
  \A b \in BOOLEAN :
    (Simulating
       /\ InRange(At(run[b].q, 0), args.Qmin, args.Qmax)
       /\ InRange(args.Qbias, args.Qmin, args.Qmax)
       /\ args.K > 0
       /\ 0 < run[b].IncOL /\ run[b].IncOL <= Scale) =>
      \A k \in 1..Len(run[b].q) : InRange(run[b].q[k], args.Qmin, args.Qmax)

\* Q does stay within its limits under the offset policy, and under the
\* table-shift policy when the limits enclose zero.
ReactivePowerWithinLimitsOffset ==
  \A b \in BOOLEAN :
    (Simulating
       /\ (~b \/ (args.Qmin <= 0 /\ 0 <= args.Qmax))
       /\ InRange(At(run[b].q, 0), args.Qmin, args.Qmax)
       /\ InRange(args.Qbias, args.Qmin, args.Qmax)) =>
      \A k \in 1..Len(run[b].q) : InRange(run[b].q[k], args.Qmin, args.Qmax)

\* the table show_characteristic was given by set_characteristic
Tabulated == pc = "characteristic"

\* Vref in [0.95, 1.05], dB >= 0, K > 0, Qmin <= Qbias <= Qmax
ValidParameters ==
  /\ InRange(args.Vref, VrefLow, VrefHigh)
  /\ args.dB >= 0
  /\ args.K > 0
  /\ InRange(args.Qbias, args.Qmin, args.Qmax)

\* C5: for every valid parameter set the voltages of the table returned by
\* set_characteristic (either notebook's) satisfy
\* VL <= V1 <= V2 <= V3 <= V4 <= VH.
C5_BreakpointMonotonicity ==
  (Tabulated /\ ValidParameters) =>
    \A k \in 1..5 : chr.vtable[k] <= chr.vtable[k + 1]

\* a table of a valid parameter set with two sloped segments and a deadband
C5_Witness ==
  /\ Tabulated /\ ValidParameters
  /\ \A k \in 1..5 : chr.vtable[k] < chr.vtable[k + 1]

\* voltages around every breakpoint of a table, and well outside of it
ProbeOffsets == {-2500, -250, -100, -50, -1, 0, 1, 50, 100, 250, 2500}
Probes(vtable) ==
  {vtable[k] + d : k \in 1..Len(vtable), d \in ProbeOffsets}

\* C6: for every table returned by set_characteristic for valid parameters
\* the lookup returns exactly Q1 = Qmax for every V < V1, also below VL, and
\* exactly Q4 = Qmin for every V > V4, also above VH.
C6_Extrapolation ==
  (Tabulated /\ ValidParameters) =>
    /\ \A v \in Probes(chr.vtable) :
         /\ v < At(chr.vtable, 1) =>
              interp(v, chr.vtable, chr.qtable) = args.Qmax
         /\ v > At(chr.vtable, 4) =>
              interp(v, chr.vtable, chr.qtable) = args.Qmin
    /\ \A k \in 1..Len(chr.v) :
         /\ chr.v[k] < At(chr.vtable, 1) => chr.q[k] = args.Qmax
         /\ chr.v[k] > At(chr.vtable, 4) => chr.q[k] = args.Qmin

\* a table whose end segments are sloped and whose plotted curve starts
\* below VL and ends above VH
C6_Witness ==
  /\ Tabulated /\ ValidParameters
  /\ args.Qmin < args.Qbias /\ args.Qbias < args.Qmax
  /\ chr.v[1] < At(chr.vtable, 0) /\ chr.q[1] = args.Qmax
  /\ chr.v[Len(chr.v)] > At(chr.vtable, 5) /\ chr.q[Len(chr.v)] = args.Qmin

\* inputs that the validating version leaves as they are
InRangeInputs ==
  /\ InRange(args.Vref, VrefLow, VrefHigh)
  /\ InRange(args.dB, DeadbandLow, DeadbandHigh)
  /\ args.K > 0
  /\ InRange(args.Qbias, args.Qmin, args.Qmax)

\* C7: for in-range inputs set_characteristic returns the voltage row
\* [V1-0.01, V1, V2, V3, V4, V4+0.01] and the reactive-power row
\* [Qmax, Qmax, Qbias, Qbias, Qmin, Qmin], with V2 = Vref - dB/2,
\* V3 = Vref + dB/2, V1 = V2 - (Qmax - Qbias)/K, V4 = V3 - (Qmin - Qbias)/K.
C7_Construction ==
  (Tabulated /\ InRangeInputs) =>
    LET V2 == args.Vref - RDiv(args.dB, 2)
        V3 == args.Vref + RDiv(args.dB, 2)
        V1 == V2 - RDiv((args.Qmax - args.Qbias) * Scale, args.K)
        V4 == V3 - RDiv((args.Qmin - args.Qbias) * Scale, args.K)
    IN  /\ chr.vtable = <<V1 - 100, V1, V2, V3, V4, V4 + 100>>
        /\ chr.qtable = <<args.Qmax, args.Qmax, args.Qbias, args.Qbias,
                          args.Qmin, args.Qmin>>

\* a table of in-range inputs with a bias, a deadband and unequal limits
C7_Witness ==
  /\ Tabulated /\ InRangeInputs
  /\ args.Qbias # 0 /\ args.dB > 0 /\ args.Qmax # -args.Qmin
  /\ args.Qmin < args.Qbias /\ args.Qbias < args.Qmax

\* voltage offsets reaching from inside the deadband to beyond the sentinels
SymmetryOffsets == {0, 1, 50, 100, 199, 200, 201, 250, 300, 333, 500, 777,
                    1000, 1500, 2000, 3000}

\* equal to within one unit of the last decimal carried
Close(a, b) == Abs(a - b) <= 1

\* Vref in [0.95, 1.05], dB >= 0, K > 0, Qmax >= 0 >= Qmin, and Qbias = 0
ValidUnbiased ==
  /\ InRange(args.Vref, VrefLow, VrefHigh)
  /\ args.dB >= 0
  /\ args.K > 0
  /\ args.Qmax >= 0 /\ args.Qmin <= 0
  /\ args.Qbias = 0

\* C8 as stated: with Qbias = 0, for every valid Vref, dB, K, Qmax and Qmin,
\* lookup(Vref + x) = -lookup(Vref - x) for every voltage offset x.
C8_DeadbandSymmetry ==
  (Tabulated /\ ValidUnbiased) =>
    \A x \in SymmetryOffsets :
      Close(interp(args.Vref + x, chr.vtable, chr.qtable),
            -interp(args.Vref - x, chr.vtable, chr.qtable))

\* C8 amended: with Qbias = 0 and Qmin = -Qmax, for every valid Vref, dB, K
\* and Qmax, lookup(Vref + x) = -lookup(Vref - x) for every voltage offset x,
\* to within the rounding of the interpolation.
C8_DeadbandSymmetryEqualLimits ==
  (Tabulated /\ ValidUnbiased /\ args.Qmin = -args.Qmax) =>
    \A x \in SymmetryOffsets :
      Close(interp(args.Vref + x, chr.vtable, chr.qtable),
            -interp(args.Vref - x, chr.vtable, chr.qtable))

\* an unbiased table with equal and opposite limits, looked up on a sloped
\* segment and beyond the sentinels
C8_Witness ==
  /\ Tabulated /\ ValidUnbiased /\ args.Qmin = -args.Qmax
  /\ args.Qmax > 0 /\ args.dB > 0
  /\ \E x \in SymmetryOffsets :
       /\ interp(args.Vref + x, chr.vtable, chr.qtable) < 0
       /\ interp(args.Vref + x, chr.vtable, chr.qtable) > args.Qmin
  /\ \E x \in SymmetryOffsets : args.Vref + x > At(chr.vtable, 5)

\* the value of lo..hi nearest to x
Nearest(x, lo, hi) == IF x < lo THEN lo ELSE IF hi < x THEN hi ELSE x

\* the wordings by which a correction of each parameter is reported
Wording ==
  [Vref  |-> {"Vref is too low", "Vref is too high"},
   Qbias |-> {"Qbias is too high", "Qbias is too low"},
   dB    |-> {"deadband is too low", "deadband is too high for category B"}]

\* what was reported about parameter p: the value passed and its replacement
Reported(p) ==
  {<<chr.printed[k].value, chr.printed[k].to>> :
     k \in {j \in 1..Len(chr.printed) : chr.printed[j].what \in Wording[p]}}

\* what has to be reported about a parameter passed as x and allowed lo..hi
Expected(x, lo, hi) ==
  IF Nearest(x, lo, hi) = x THEN {} ELSE {<<x, Nearest(x, lo, hi)>>}

\* a finished call of show_characteristic, with a table or with an exception
Characterised ==
  /\ pc \in {"characteristic", "failed"}
  /\ args.sim = "characteristic"

\* C9: the validating set_characteristic of vqpoints.ipynb returns a table
\* for any Vref, Qbias and dB (given a slope other than zero and
\* qmin <= qmax); the table is exactly the one of Vref replaced by its nearest
\* value in [0.95, 1.05], Qbias by its nearest value in [qmin, qmax] and dB
\* by its nearest value in [0, 0.06]; and it prints one message for each
\* replacement made and none otherwise.
C9_RecoverableViolations ==
  (Characterised /\ args.nb = "vqpoints" /\ args.K # 0
     /\ args.Qmin <= args.Qmax) =>
    LET c == set_characteristic(Nearest(args.Vref, 9500, 10500),
                                Nearest(args.dB, 0, 600), args.K,
                                args.Qmax, args.Qmin,
                                Nearest(args.Qbias, args.Qmin, args.Qmax))
    IN  /\ pc = "characteristic"
        /\ chr.raised = "none"
        /\ chr.vtable = c.vtable
        /\ chr.qtable = c.qtable
        /\ Reported("Vref") = Expected(args.Vref, 9500, 10500)
        /\ Reported("Qbias") = Expected(args.Qbias, args.Qmin, args.Qmax)
        /\ Reported("dB") = Expected(args.dB, 0, 600)
        /\ Len(chr.printed) = Cardinality(Reported("Vref"))
                              + Cardinality(Reported("Qbias"))
                              + Cardinality(Reported("dB"))

\* a call of the validating version with Vref, Qbias and dB all out of range
C9_Witness ==
  /\ Tabulated /\ args.nb = "vqpoints"
  /\ args.Vref > VrefHigh
  /\ args.Qbias < args.Qmin
  /\ args.dB > DeadbandHigh
  /\ Len(chr.printed) = 3

\* the table the validating set_characteristic builds from the arguments of
\* the simulator call
ValidatedStartUp ==
  vq_set_characteristic(args.Vref, args.dB, args.K, args.Qmax, args.Qmin,
                        args.Qbias)

\* a table whose centre is in [0.95, 1.05], whose deadband is in [0, 0.06]
\* and whose deadband reactive power is in [Qmin, Qmax]
FromCorrectedInputs(vtable, qtable) ==
  /\ InRange(At(vtable, 2) + At(vtable, 3), 2 * VrefLow, 2 * VrefHigh)
  /\ InRange(At(vtable, 3) - At(vtable, 2), DeadbandLow, DeadbandHigh)
  /\ InRange(At(qtable, 2), args.Qmin, args.Qmax)

\* C10: each table built by show_aarv_test, show_bess_test or show_vsrc_test,
\* at start-up and at every rebuild of the table-shift policy, is built from
\* corrected inputs (Vref clamped to [0.95, 1.05], Qbias to [Qmin, Qmax], dB
\* to [0, 0.06]): a caller passing an out-of-range value runs with the
\* nearest boundary value.
C10_ValidationEverywhere ==
  pc \in {"aarv", "bess", "vsrc"} =>
    /\ run[FALSE].vtable = ValidatedStartUp.vtable
    /\ run[FALSE].qtable = ValidatedStartUp.qtable
    /\ \A b \in BOOLEAN : FromCorrectedInputs(run[b].vtable, run[b].qtable)

\* The simulators run with the table of the arguments as passed.
TableOfArgumentsAsPassed ==
  pc \in {"aarv", "bess", "vsrc"} =>
    /\ run[FALSE].vtable = set_characteristic(args.Vref, args.dB, args.K,
                             args.Qmax, args.Qmin, args.Qbias).vtable
    /\ run[FALSE].qtable = set_characteristic(args.Vref, args.dB, args.K,
                             args.Qmax, args.Qmin, args.Qbias).qtable

\* C11: set_characteristic called with slope K <= 0, or with parameters whose
\* breakpoints would not be monotone (Qmax < Qmin), ends in a failure that
\* differs from the auto-corrected outcome, and returns no table.
C11_FatalSlope ==
  (Characterised /\ (args.K <= 0 \/ args.Qmax < args.Qmin)) =>
    /\ pc = "failed"
    /\ chr.raised # "none"
    /\ "vtable" \notin DOMAIN chr

\* set_characteristic fails for a slope of zero and for nothing else.
FailsOnZeroSlopeOnly ==
  Characterised => (pc = "failed" <=> args.K = 0)

\* Tref < 0, Tref = 0 in show_aarv_test, Tresponse <= 0, dt <= 0 or K <= 0
OutOfPolicy ==
  \/ args.Tref < 0
  \/ args.sim = "aarv" /\ args.Tref = 0
  \/ args.Tresponse <= 0
  \/ args.dt <= 0
  \/ args.K <= 0

\* C13: no simulator raises an exception once its loop has started, and a
\* call with an input outside the policy range (Tref < 0, Tref = 0 in
\* show_aarv_test, Tresponse <= 0, dt <= 0, K <= 0) is stopped before the
\* first step: no loop is entered with such a value.
C13_FailureSemantics ==
  /\ Simulating => ~OutOfPolicy
  /\ pc \in {"aarv", "bess", "vsrc"} => args.K # 0

\* An exception ends a simulator before its loop, never in it.
NoExceptionInLoop ==
  [][(pc \in {"aarv", "bess", "vsrc"}) => (pc' # "failed")]_vars

\* The inputs that a simulator runs with although they are out of policy:
\* a negative K, a negative Tresponse, and a negative Tref in show_bess_test
\* and show_vsrc_test; every other one raises before the loop.
RunsOutOfPolicy ==
  (pc \in {"aarv", "bess", "vsrc", "done", "failed"}
     /\ args.sim \in {"aarv", "bess", "vsrc"} /\ OutOfPolicy) =>
    (pc = "failed" <=>
       (args.K = 0 \/ args.Tresponse = 0 \/ args.dt <= 0
          \/ (args.sim = "aarv" /\ args.Tref <= 0)))

\* a finished call of get_voltage, with a result or with an exception
Solved ==
  /\ pc \in {"voltage", "failed"}
  /\ args.sim = "get_voltage"

\* C12: get_voltage called with Vsrc = 0 or with Vsrc < 0 ends in a failure
\* and returns no (Vpoc, dV) pair, for every R, X, dP and dQ.
C12_FatalSourceVoltage ==
  (Solved /\ args.vsrcpu <= 0) =>
    /\ pc = "failed"
    /\ volt.raised # "none"

\* get_voltage fails for a source voltage of zero and for nothing else.
FailsOnZeroSourceOnly ==
  Solved => (pc = "failed" <=> args.vsrcpu = 0)

\* the rounding that the two divisions by Vsrc leave in (dV + 1) * Vsrc^2
VoltageRounding == 3

\* C19: for Vsrc > 0, get_voltage returns (Vpoc, dV) with Vpoc = Vsrc + dV,
\* dV >= -1 and ((dV + 1) * Vsrc^2)^2 = a1^2 + a2^2 (to within the rounding),
\* where a1 = Vsrc^2 + R*dP + X*dQ and a2 = X*dP - R*dQ; with dP = dQ = 0 it
\* returns dV = 0 and Vpoc = Vsrc.
C19_VoltageDropFormula ==
  (Solved /\ args.vsrcpu > 0) =>
    LET a1 == Mul(args.vsrcpu, args.vsrcpu) + Mul(args.rpu, args.dP)
              + Mul(args.xpu, args.dQ)
        a2 == Mul(args.xpu, args.dP) - Mul(args.rpu, args.dQ)
        m  == Mul(Mul(volt.d + Scale, args.vsrcpu), args.vsrcpu)
    IN  /\ pc = "voltage"
        /\ volt.vpu = args.vsrcpu + volt.d
        /\ volt.d >= -Scale
        /\ m >= VoltageRounding
        /\ (m - VoltageRounding) * (m - VoltageRounding) <= a1 * a1 + a2 * a2
        /\ a1 * a1 + a2 * a2 <= (m + VoltageRounding) * (m + VoltageRounding)
        /\ (args.dP = 0 /\ args.dQ = 0) =>
             (volt.d = 0 /\ volt.vpu = args.vsrcpu)

\* a call with active and reactive power through an impedance, at a source
\* voltage other than 1.0, and a call with no power at all
C19_Witness ==
  /\ Solved /\ args.vsrcpu > 0 /\ args.vsrcpu # Scale
  /\ args.rpu > 0 /\ args.dP # 0 /\ args.dQ # 0
  /\ volt.d # 0

\* C14: in show_bess_test and show_vsrc_test, Tref = 0 gives IncRef = 0, and
\* with an initial reference in [0.95, 1.05] Vref[i] keeps its initial value
\* at every step i.
C14_DisabledAdaptation ==
  (Simulating /\ args.sim \in {"bess", "vsrc"} /\ args.Tref = 0
     /\ InRange(InitialReference, VrefLow, VrefHigh)) =>
    \A b \in BOOLEAN :
      /\ run[b].IncRef = 0
      /\ \A k \in 1..Len(run[b].vref) : run[b].vref[k] = InitialReference

\* a finished run with AARV disabled in which the voltage was away from the
\* reference
C14_Witness ==
  /\ pc = "done" /\ args.sim \in {"bess", "vsrc"} /\ args.Tref = 0
  /\ InRange(InitialReference, VrefLow, VrefHigh)
  /\ \E k \in 1..Len(run[FALSE].verr) : run[FALSE].verr[k] # 0
  /\ Len(run[FALSE].vref) > 1

\* step i of run r left the reactive power and the reference unchanged, with
\* the reference strictly inside its limits
LeftUnchanged(r, i) ==
  /\ At(r.q, i + 1) = At(r.q, i)
  /\ At(r.vref, i + 1) = At(r.vref, i)
  /\ VrefLow < At(r.vref, i) /\ At(r.vref, i) < VrefHigh

\* the steps that run r has taken
StepsOf(r) == 0..(r.i - 1)

\* C15: in show_bess_test and show_vsrc_test with AARV enabled (IncRef > 0),
\* every step that leaves Q and Vref unchanged with Vref strictly inside
\* (0.95, 1.05) has Verr = 0 and Q = Qbias, under either policy.
C15_SteadyState ==
  (Simulating /\ args.sim \in {"bess", "vsrc"}) =>
    \A b \in BOOLEAN : \A i \in StepsOf(run[b]) :
      (run[b].IncRef > 0 /\ LeftUnchanged(run[b], i)) =>
        /\ At(run[b].verr, i) = 0
        /\ At(run[b].q, i) = args.Qbias

\* With the offset policy and a monotone table the steady state is at Verr = 0
\* and Q = Qbias, to within the error that rounds to no change of Vref and
\* the reactive power that this error asks for.
SteadyStateOffset ==
  (Simulating /\ args.sim \in {"bess", "vsrc"} /\ args.K > 0
     /\ InRange(args.Qbias, args.Qmin, args.Qmax)) =>
    \A i \in StepsOf(run[FALSE]) :
      (run[FALSE].IncRef > 0 /\ LeftUnchanged(run[FALSE], i)) =>
        /\ 2 * Abs(At(run[FALSE].verr, i)) * run[FALSE].IncRef <= Scale
        /\ Abs(At(run[FALSE].q, i) - args.Qbias)
             <= Mul(args.K, Abs(At(run[FALSE].verr, i))) + 2

\* show_vsrc_test with AARV enabled and a Vinit that is the voltage
\* get_voltage gives for (DP, Qbias, Vsrc[0]), inside the limits
ConsistentStartUp ==
  /\ Simulating /\ args.sim = "vsrc" /\ args.Tref > 0
  /\ args.Vinit = get_voltage(RPU, XPU, DP, args.Qbias,
                              vsrc_vsrc(args, 0)).vpu
  /\ InRange(args.Vinit, VrefLow, VrefHigh)

\* Vsrc has had its initial value up to point i
SourceStill(i) == \A j \in 0..i : vsrc_vsrc(args, j) = vsrc_vsrc(args, 0)

\* C16: in show_vsrc_test with AARV enabled and Vinit equal to the voltage
\* that get_voltage gives for (DP, Qbias, Vsrc[0]), in [0.95, 1.05], at every
\* step during which Vsrc still has its initial value Q[i] = Qbias and
\* Vref[i] = Vinit, under either policy.
C16_NoStartUpTransient ==
  ConsistentStartUp =>
    \A b \in BOOLEAN : \A i \in 0..run[b].i :
      SourceStill(i) =>
        /\ At(run[b].q, i) = args.Qbias
        /\ At(run[b].vref, i) = args.Vinit

\* With the offset policy and a monotone table there is no start-up transient.
NoStartUpTransientOffset ==
  (ConsistentStartUp /\ args.K > 0
     /\ InRange(args.Qbias, args.Qmin, args.Qmax)) =>
    \A i \in 0..run[FALSE].i :
      SourceStill(i) =>
        /\ At(run[FALSE].q, i) = args.Qbias
        /\ At(run[FALSE].vref, i) = args.Vinit

\* a finished step test with the offset policy, zero deadband, a monotone
\* table and no open-loop delay (IncOL = 1)
StepTestDecayed ==
  /\ pc = "done" /\ args.sim = "aarv"
  /\ args.dB = 0 /\ args.K > 0 /\ args.Qmin <= 0 /\ 0 <= args.Qmax
  /\ run[FALSE].IncOL = Scale

\* the reactive power at t[-1] = Tref, and Qstep * e^(-1)
FinalQ == At(run[FALSE].q, run[FALSE].npts - 1)
DecayedQstep == Mul(run[FALSE].q0, Exp(-Scale))

\* the rounding of Vref, seen through the slope
DecayRounding == Mul(args.K, 2) + 2

\* C17: in the step test with the offset policy, zero deadband and no
\* open-loop delay, the reactive power at t = Tref equals Qstep * e^(-1),
\* Qstep being the static lookup value at the stepped voltage.
C17_DecayLaw ==
  StepTestDecayed => Abs(FinalQ - DecayedQstep) <= DecayRounding

\* The decay law holds where Tref is a whole number of steps dt.
DecayLawWholeSteps ==
  (StepTestDecayed /\ args.Tref % args.dt = 0) =>
    Abs(FinalQ - DecayedQstep) <= DecayRounding

\* the passes of the loop that run r has made
StepsTaken(r) == IF args.sim = "aarv" THEN r.i - 1 ELSE r.i

\* int(tmax / dt) for the horizon tmax of the simulator
Horizon ==
  LET tmax == IF args.sim = "aarv" THEN args.Tref
              ELSE IF args.sim = "bess"
                   THEN (IF args.Tref > 0 THEN args.numTrefs * args.Tref
                         ELSE 300)
                   ELSE 12 * (IF args.Tref > 0 THEN args.Tref ELSE 300)
  IN  tmax \div args.dt

\* the loop is left
Leaving == pc \in {"aarv", "bess", "vsrc"} /\ pc' = "done"

\* C20: each simulator's loop executes exactly int(tmax/dt) steps and then
\* stops, with tmax = Tref in show_aarv_test, numTrefs*Tref (or 300 s) in
\* show_bess_test and 12*Tref (Tref replaced by 300 s when not positive) in
\* show_vsrc_test; no state is updated after the last step.
C20_TerminationAtHorizon ==
  [][/\ (pc \in {"aarv", "bess", "vsrc"} /\ pc' = pc) =>
          \A b \in BOOLEAN :
            /\ StepsTaken(run[b]) < Horizon
            /\ StepsTaken(run[b])' = StepsTaken(run[b]) + 1
     /\ Leaving =>
          /\ \A b \in BOOLEAN : StepsTaken(run[b]) = Horizon
          /\ run' = run
     /\ pc = "done" => pc' = "idle"]_vars

\* C20, as the code has it: the loop executes exactly int(tmax/dt) steps and
\* then stops; after the last step Q and Vref are not updated, only the last
\* recorded points (and the table of show_aarv_test) are written.
C20_TerminationAtHorizonRecorded ==
  [][/\ (pc \in {"aarv", "bess", "vsrc"} /\ pc' = pc) =>
          \A b \in BOOLEAN :
            /\ StepsTaken(run[b]) < Horizon
            /\ StepsTaken(run[b])' = StepsTaken(run[b]) + 1
     /\ Leaving =>
          \A b \in BOOLEAN :
            /\ StepsTaken(run[b]) = Horizon
            /\ StepsTaken(run[b])' = Horizon
            /\ run'[b].q = run[b].q
            /\ VrefOf(run[b])' = VrefOf(run[b])
     /\ pc = "done" => pc' = "idle"]_vars

\* a run left after several steps, whose last recorded error was written
\* after the loop
C20_Witness ==
  /\ pc = "done" /\ args.sim \in {"bess", "vsrc"}
  /\ StepsTaken(run[FALSE]) = Horizon /\ Horizon >= 2
  /\ At(run[FALSE].verr, run[FALSE].npts - 1) # 0

\* a step test left after several steps
StepTestLeft ==
  /\ pc = "done" /\ args.sim = "aarv"
  /\ StepsTaken(run[FALSE]) = Horizon /\ Horizon >= 2

\* a simulator call has finished with the arguments of the call whose arrays
\* were kept
Repeated ==
  /\ pc = "done"
  /\ kept # None
  /\ kept.args = args

\* C18: two invocations of the same simulator with the same argument values
\* produce identical arrays, whatever other scenarios or notebook cells ran
\* between them (the cell that assigns DQ again among them).
C18_RunIndependence ==
  Repeated => run = kept.run

\* a repeated call, after DQ was assigned another value and another simulator
\* ran
C18_Witness ==
  /\ Repeated
  /\ kept.DQ # DQ
  /\ \E s \in kept.since : s \in {"aarv", "bess", "vsrc"} /\ s # args.sim
  /\ args.sim \in {"bess", "vsrc"}

\* the target looked up at voltage v with the reference vref, under policy b:
\* from the table built around vref, or from the table of the run entered
\* at v + (Vref - vref)
TargetAt(b, r, v, vref) ==
  IF b
  THEN LET c == set_characteristic(vref, args.dB, args.K, args.Qmax,
                                   args.Qmin, 0)
       IN  interp(v, c.vtable, c.qtable)
  ELSE interp(v + (args.Vref - vref), r.vtable, r.qtable)

\* P[i] and Vsrc[i] of the run in progress
PAt(i) == IF args.sim = "bess" THEN bess_p(args, i) ELSE vsrc_p(args, i)
VsrcAt(i) ==
  IF args.sim = "bess" THEN bess_vsrc(args, i) ELSE vsrc_vsrc(args, i)

\* a pass of the loop of a simulator
Stepping == pc \in {"aarv", "bess", "vsrc"} /\ pc' = pc

\* the order of one pass of show_bess_test and show_vsrc_test
OrderedPass(b) ==
  LET i == run[b].i
      v == get_voltage(RPU, XPU, PAt(i), At(run[b].q, i), VsrcAt(i)).vpu
  IN  /\ At(run'[b].vpoc, i) = v
      /\ run'[b].qtarg = TargetAt(b, run[b], v, At(run[b].vref, i))
      /\ At(run'[b].q, i + 1)
           = OpenLoop(At(run[b].q, i), run'[b].qtarg, run[b].IncOL)

\* the order of one pass of show_aarv_test, at the constant test voltage v0
OrderedStepTestPass(b) ==
  LET i == run[b].i
  IN  /\ run'[b].qtarg = TargetAt(b, run[b], run[b].v0, run[b].Vref)
      /\ At(run'[b].q, i)
           = OpenLoop(At(run[b].q, i - 1), run'[b].qtarg, run[b].IncOL)

\* C21: in each step i of every simulator Vpoc[i] is computed from P[i] and
\* the Q[i] of the previous step, the target is looked up from Vpoc[i] and
\* the reference held before this step's adaptation, and Q[i+1] is computed
\* last from that target.
C21_StepOrdering ==
  [][Stepping =>
       \A b \in BOOLEAN :
         IF pc = "aarv" THEN OrderedStepTestPass(b) ELSE OrderedPass(b)]_vars

\* show_bess_test and show_vsrc_test keep this order.
StepOrderingWithVoltage ==
  [][(Stepping /\ pc # "aarv") => \A b \in BOOLEAN : OrderedPass(b)]_vars

\* show_aarv_test looks the target up with the reference as adapted in the
\* same pass.
StepTestUsesAdaptedReference ==
  [][(Stepping /\ pc = "aarv") =>
       \A b \in BOOLEAN :
         run'[b].qtarg = TargetAt(b, run[b], run[b].v0, run'[b].Vref)]_vars

\* the table of the caller's parameters
OriginalTable ==
  set_characteristic(args.Vref, args.dB, args.K, args.Qmax, args.Qmin,
                     args.Qbias)

\* the voltage at which the last pass of the offset policy entered the table:
\* Vpoc[i] + (Vref - Vref[i]), with the i and the reference that the
\* simulator used
QueryVoltage(r) ==
  IF args.sim = "aarv" THEN r.v0 + (args.Vref - r.Vref)
  ELSE At(r.vpoc, r.i - 1) + (args.Vref - At(r.vref, r.i - 1))

\* C22: under bShiftTable=False the table built at start-up is never rebuilt,
\* at every step it is set_characteristic of the caller's parameters, whose
\* Vref is not updated; only the voltage of the query changes.
C22_OffsetKeepsTable ==
  Simulating =>
    /\ run[FALSE].vtable = OriginalTable.vtable
    /\ run[FALSE].qtable = OriginalTable.qtable
    /\ StepsTaken(run[FALSE]) >= 1 =>
         run[FALSE].qtarg = interp(QueryVoltage(run[FALSE]),
                                   OriginalTable.vtable, OriginalTable.qtable)

\* a run of show_bess_test or show_vsrc_test in which the reference has moved
\* and the shift policy has moved its table
C22_Witness ==
  /\ pc \in {"bess", "vsrc"}
  /\ StepsTaken(run[FALSE]) >= 2
  /\ At(run[FALSE].vref, run[FALSE].i) # args.Vref
  /\ run[TRUE].vtable # OriginalTable.vtable
  /\ args.Qbias # 0

\* x lies in the closed interval between a and b
Between(x, a, b) == (a <= x /\ x <= b) \/ (b <= x /\ x <= a)

\* the index of the reactive power that the last pass wrote
LastWritten(r) == IF args.sim = "aarv" THEN r.i - 1 ELSE r.i

\* C23: for dt > 0 and Tresponse > 0 each step gives a Q[i+1] in the closed
\* interval between Q[i] and the step's target Qtarg, in every simulator.
C23_NoOvershoot ==
  (Simulating /\ args.dt > 0 /\ args.Tresponse > 0) =>
    \A b \in BOOLEAN :
      StepsTaken(run[b]) >= 1 =>
        Between(At(run[b].q, LastWritten(run[b])),
                At(run[b].q, LastWritten(run[b]) - 1), run[b].qtarg)

\* a step that left Q strictly between its earlier value and the target
C23_Witness ==
  /\ Simulating /\ args.dt > 0 /\ args.Tresponse > 0
  /\ StepsTaken(run[FALSE]) >= 2
  /\ At(run[FALSE].q, LastWritten(run[FALSE]) - 1)
       < At(run[FALSE].q, LastWritten(run[FALSE]))
  /\ At(run[FALSE].q, LastWritten(run[FALSE])) < run[FALSE].qtarg

\* K > 0, dB >= 0, Qmin <= Qbias <= Qmax
ValidTable ==
  /\ Tabulated
  /\ args.K > 0 /\ args.dB >= 0
  /\ InRange(args.Qbias, args.Qmin, args.Qmax)

\* the voltages at which the lookup is tried, and the steps from one voltage
\* to a higher one
LookupVoltages == Probes(chr.vtable) \union {chr.v[k] : k \in 1..Len(chr.v)}
LookupSteps == {0, 1, 50, 600, 5000}

\* C24: for every table built from valid parameters (K > 0, dB >= 0,
\* Qmin <= Qbias <= Qmax) and all voltages Va <= Vb,
\* Qmin <= lookup(Vb) <= lookup(Va) <= Qmax, and lookup(V) = Qbias for every V
\* in the deadband [V2, V3].
C24_LookupBoundedNonIncreasing ==
  ValidTable =>
    /\ \A va \in LookupVoltages : \A d \in LookupSteps :
         /\ args.Qmin <= interp(va + d, chr.vtable, chr.qtable)
         /\ interp(va + d, chr.vtable, chr.qtable)
              <= interp(va, chr.vtable, chr.qtable)
         /\ interp(va, chr.vtable, chr.qtable) <= args.Qmax
    /\ \A k \in 1..(Len(chr.q) - 1) : chr.q[k + 1] <= chr.q[k]
    /\ \A v \in LookupVoltages :
         (At(chr.vtable, 2) <= v /\ v <= At(chr.vtable, 3)) =>
           interp(v, chr.vtable, chr.qtable) = args.Qbias

\* a table with a deadband and two sloped segments, looked up strictly inside
\* each of them
C24_Witness ==
  /\ ValidTable
  /\ args.Qmin < args.Qbias /\ args.Qbias < args.Qmax /\ args.Qbias # 0
  /\ At(chr.vtable, 2) < At(chr.vtable, 3)
  /\ \E v \in LookupVoltages :
       /\ At(chr.vtable, 1) < v /\ v < At(chr.vtable, 2)
       /\ args.Qbias < interp(v, chr.vtable, chr.qtable)
       /\ interp(v, chr.vtable, chr.qtable) < args.Qmax
  /\ \E v \in LookupVoltages :
       /\ At(chr.vtable, 3) < v /\ v < At(chr.vtable, 4)
       /\ args.Qmin < interp(v, chr.vtable, chr.qtable)
       /\ interp(v, chr.vtable, chr.qtable) < args.Qbias

\* show_bess_test or show_vsrc_test has finished
Recorded == pc = "done" /\ args.sim \in {"bess", "vsrc"}

\* C25: when show_bess_test or show_vsrc_test finishes, for every index i
\* from 0 to the last one, Verr[i] = Vpoc[i] - Vref[i] and Vpoc[i] is the
\* get_voltage result for (P[i], Q[i], Vsrc[i]).
C25_RecordedOutputsConsistent ==
  Recorded =>
    \A b \in BOOLEAN : \A i \in 0..(run[b].npts - 1) :
      /\ At(run[b].verr, i) = At(run[b].vpoc, i) - At(run[b].vref, i)
      /\ At(run[b].vpoc, i)
           = get_voltage(RPU, XPU, PAt(i), At(run[b].q, i), VsrcAt(i)).vpu

\* a finished run of several steps whose last point has reactive power, a
\* voltage other than the initial one and an error
C25_Witness ==
  /\ Recorded
  /\ run[TRUE].npts >= 3
  /\ At(run[TRUE].q, run[TRUE].npts - 1) # 0
  /\ At(run[TRUE].vpoc, run[TRUE].npts - 1) # At(run[TRUE].vpoc, 0)
  /\ At(run[TRUE].verr, run[TRUE].npts - 1) # 0

\* show_bess_test with Qmax = Qmin = 0 and Qbias = 0
NoCapability ==
  /\ Simulating /\ args.sim = "bess"
  /\ args.Qmax = 0 /\ args.Qmin = 0 /\ args.Qbias = 0

\* the indices whose voltage has been recorded
RecordedIndices(r) ==
  IF pc = "done" THEN 0..(r.npts - 1) ELSE 0..(r.i - 1)

\* C26: with Qmax = Qmin = 0 and Qbias = 0 show_bess_test keeps Q[i] = 0 at
\* every step under both policies, so that both runs give the same Vpoc, Vref
\* and Verr, those of the uncompensated voltage.
C26_NoVoltVarCapability ==
  NoCapability =>
    /\ \A b \in BOOLEAN : \A k \in 1..Len(run[b].q) : run[b].q[k] = 0
    /\ run[TRUE].vpoc = run[FALSE].vpoc
    /\ run[TRUE].vref = run[FALSE].vref
    /\ run[TRUE].verr = run[FALSE].verr
    /\ \A b \in BOOLEAN : \A i \in RecordedIndices(run[b]) :
         /\ At(run[b].vpoc, i)
              = get_voltage(RPU, XPU, PAt(i), 0, VsrcAt(i)).vpu
         /\ At(run[b].verr, i) = At(run[b].vpoc, i) - At(run[b].vref, i)

\* a run without capability in which the power has raised the voltage and the
\* reference has followed
C26_Witness ==
  /\ NoCapability /\ args.K > 0
  /\ run[TRUE].i >= 2
  /\ \E i \in RecordedIndices(run[TRUE]) : At(run[TRUE].vpoc, i) > Scale
  /\ At(run[TRUE].vref, run[TRUE].i) # args.Vref
  /\ InRange(args.Vref, VrefLow, VrefHigh)

\* the characteristic of the same notebook with the bias moved to the
\* voltage: Vref + Qbias/K and no reactive-power bias
VoltageBiased ==
  LET Vbias == args.Vref + RDiv(args.Qbias * Scale, args.K)
  IN  IF args.nb = "vqpoints"
      THEN vq_set_characteristic(Vbias, args.dB, args.K, args.Qmax,
                                 args.Qmin, 0)
      ELSE set_characteristic(Vbias, args.dB, args.K, args.Qmax, args.Qmin, 0)

\* the lookups of the two characteristics at v differ by more than the
\* rounding of Qbias/K, seen through the slope
LookupsDiffer(v) ==
  Abs(interp(v, chr.vtable, chr.qtable)
      - interp(v, VoltageBiased.vtable, VoltageBiased.qtable))
    > Mul(args.K, 1) + 2

\* C27: for any deadband the characteristic built with (Vref, Qbias) and the
\* one built with (Vref + Qbias/K, Qbias = 0) have the same (V1, Q1) and
\* (V4, Q4); with a zero deadband they give the same lookup at every voltage,
\* with a non-zero deadband and Qbias # 0 their lookups differ at some
\* voltage.
C27_BiasEquivalence ==
  (Tabulated /\ args.K > 0) =>
    /\ Close(At(chr.vtable, 1), At(VoltageBiased.vtable, 1))
    /\ At(chr.qtable, 1) = At(VoltageBiased.qtable, 1)
    /\ Close(At(chr.vtable, 4), At(VoltageBiased.vtable, 4))
    /\ At(chr.qtable, 4) = At(VoltageBiased.qtable, 4)
    /\ args.dB = 0 => \A v \in LookupVoltages : ~LookupsDiffer(v)
    /\ (args.dB # 0 /\ args.Qbias # 0) =>
         \E v \in LookupVoltages : LookupsDiffer(v)

\* K > 0, Qmin <= Qbias <= Qmax and Qmin <= 0 <= Qmax, and nothing that the
\* validating set_characteristic corrects: there Vref and Vref + Qbias/K lie
\* in [0.95, 1.05] and dB in [0, 0.06]
BothBuiltAsPassed ==
  /\ Tabulated
  /\ args.K > 0
  /\ InRange(args.Qbias, args.Qmin, args.Qmax)
  /\ InRange(0, args.Qmin, args.Qmax)
  /\ args.nb = "vqpoints" =>
       /\ InRange(args.Vref, VrefLow, VrefHigh)
       /\ InRange(args.Vref + RDiv(args.Qbias * Scale, args.K),
                  VrefLow, VrefHigh)
       /\ InRange(args.dB, DeadbandLow, DeadbandHigh)

\* C27, for parameters that set_characteristic takes as passed: for any
\* deadband the characteristic built with (Vref, Qbias) and the one built
\* with (Vref + Qbias/K, Qbias = 0) have the same (V1, Q1) and (V4, Q4); with
\* a zero deadband they give the same lookup at every voltage, with a
\* non-zero deadband and Qbias # 0 their lookups differ at some voltage.
C27_BiasEquivalenceAsPassed ==
  BothBuiltAsPassed =>
    /\ Close(At(chr.vtable, 1), At(VoltageBiased.vtable, 1))
    /\ At(chr.qtable, 1) = At(VoltageBiased.qtable, 1)
    /\ Close(At(chr.vtable, 4), At(VoltageBiased.vtable, 4))
    /\ At(chr.qtable, 4) = At(VoltageBiased.qtable, 4)
    /\ args.dB = 0 => \A v \in LookupVoltages : ~LookupsDiffer(v)
    /\ (args.dB # 0 /\ args.Qbias # 0) =>
         \E v \in LookupVoltages : LookupsDiffer(v)

\* the validating set_characteristic given a bias and a deadband: the
\* lookups of the two characteristics differ in the deadband and agree on
\* the slope below it
C27_Witness ==
  /\ BothBuiltAsPassed /\ args.nb = "vqpoints"
  /\ args.dB > 0 /\ args.Qbias # 0
  /\ LookupsDiffer(args.Vref)
  /\ \E v \in LookupVoltages :
       /\ At(chr.vtable, 1) < v /\ v < At(chr.vtable, 2)
       /\ v < At(VoltageBiased.vtable, 2)
       /\ ~LookupsDiffer(v)
       /\ interp(v, chr.vtable, chr.qtable) < args.Qmax

\* two characteristics without deadband and with the same lookups on the
\* slope
BiasOnTheSlope ==
  /\ BothBuiltAsPassed
  /\ args.dB = 0 /\ args.Qbias # 0
  /\ \E v \in LookupVoltages :
       /\ At(chr.vtable, 1) < v /\ v < At(chr.vtable, 4)
       /\ interp(v, chr.vtable, chr.qtable) # args.Qbias

\* a step test with a deadband
StepTestWithDeadband ==
  /\ Simulating /\ args.sim = "aarv"
  /\ args.dB > 0

\* the query voltage v0 + (Vset - Vref) of run r lies in the deadband
\* [V2, V3] of the characteristic
InDeadband(r) ==
  /\ At(OriginalTable.vtable, 2) <= r.v0 + (args.Vref - r.Vref)
  /\ r.v0 + (args.Vref - r.Vref) <= At(OriginalTable.vtable, 3)

\* the default category-B scenario: dB = 0.04, K = 22/3, Qmax = 0.44
CategoryB ==
  /\ args.Vref = Scale /\ args.dB = DefaultB.dB /\ args.K = DefaultB.K
  /\ args.Qmax = DefaultB.Qmax /\ args.Qmin = DefaultB.Qmin

\* run b keeps the deadband once it has entered it, with target 0 and |Q|
\* not increasing, and category B is in the deadband from 15/16 of Tref on
Reentry(b) ==
  /\ (StepTestWithDeadband /\ Stepping /\ StepsTaken(run[b]) >= 1
        /\ InDeadband(run[b])) =>
       /\ run[b].qtarg = 0
       /\ InDeadband(run[b])'
       /\ run'[b].qtarg = 0
       /\ Abs(At(run'[b].q, run[b].i)) <= Abs(At(run[b].q, run[b].i - 1))
  /\ (StepTestWithDeadband /\ Stepping /\ CategoryB
        /\ 16 * (StepsTaken(run[b]) + 1) * args.dt >= 15 * args.Tref) =>
       /\ InDeadband(run[b])'
       /\ run'[b].qtarg = 0

\* C28: in show_aarv_test with dB > 0, once the query voltage
\* v0 + (Vset - Vref) has entered the deadband [V2, V3] at some step it stays
\* there at every later step, the target is 0 from that step on and |Q| does
\* not increase afterwards; in the default category-B scenario this happens
\* before t = Tref (from 15/16 of Tref on the query is in the deadband).
C28_DeadbandReentry ==
  [][\A b \in BOOLEAN : Reentry(b)]_vars

\* the same for the step tests whose arguments are inside the policy ranges
DeadbandReentryInPolicy ==
  [][\A b \in BOOLEAN : (Simulating /\ ~OutOfPolicy) => Reentry(b)]_vars

\* the category-B step test has entered the deadband before t = Tref with
\* reactive power left, which then decays
DeadbandReentered ==
  /\ pc = "aarv" /\ StepTestWithDeadband /\ CategoryB /\ ~OutOfPolicy
  /\ StepsTaken(run[FALSE]) >= 1
  /\ StepsTaken(run[FALSE]) < Horizon
  /\ InDeadband(run[FALSE]) /\ InDeadband(run[TRUE])
  /\ run[FALSE].qtarg = 0
  /\ At(run[FALSE].q, run[FALSE].i - 1) > 0

\* a step test with the offset policy, zero deadband, no open-loop delay
\* (IncOL = 1) and the test voltage v0 on the sloped segment between V1 and V2
DiscreteStepTest ==
  /\ Simulating /\ args.sim = "aarv"
  /\ args.dB = 0
  /\ run[FALSE].IncOL = Scale
  /\ At(OriginalTable.vtable, 1) < run[FALSE].v0
  /\ run[FALSE].v0 < At(OriginalTable.vtable, 2)

\* x to the power n in fixed point
RECURSIVE Power(_, _)
Power(x, n) == IF n = 0 THEN Scale ELSE Mul(x, Power(x, n - 1))

\* Qstep * (1 - IncRef)^n for the offset run
DecayedBy(n) == Mul(run[FALSE].q0, Power(Scale - run[FALSE].IncRef, n))

\* C29: in show_aarv_test with the offset policy, zero deadband, IncOL = 1
\* and the test voltage on the sloped segment, the output after n >= 1 steps
\* is Q[n] = Qstep * (1 - IncRef)^n with Qstep = lookup(v0) (to within the
\* rounding of Vref seen through the slope), and the full static value Qstep
\* is never output.
C29_DiscreteDecay ==
  DiscreteStepTest =>
    /\ run[FALSE].q0 = interp(run[FALSE].v0, OriginalTable.vtable,
                              OriginalTable.qtable)
    /\ \A n \in 1..StepsTaken(run[FALSE]) :
         /\ Abs(At(run[FALSE].q, n) - DecayedBy(n)) <= DecayRounding
         /\ Abs(At(run[FALSE].q, n)) < Abs(run[FALSE].q0)
    /\ \A n \in 0..StepsTaken(run[FALSE]) :
         At(run[FALSE].q, n) # run[FALSE].q0

\* six steps of a discrete step test, each output below the one before
C29_Witness ==
  /\ DiscreteStepTest
  /\ StepsTaken(run[FALSE]) = 6
  /\ run[FALSE].q0 > DecayRounding
  /\ \A n \in 1..6 : At(run[FALSE].q, n) > 0
  /\ At(run[FALSE].q, 1) < run[FALSE].q0
  /\ \A n \in 2..6 : At(run[FALSE].q, n) < At(run[FALSE].q, n - 1)

\* a finished show_bess_test with Vref = 1, dB = 0, Qbias = 0 and a power
\* ramp of one step
OneStepRamp ==
  /\ pc = "done" /\ args.sim = "bess"
  /\ args.Vref = Scale /\ args.dB = 0 /\ args.Qbias = 0
  /\ args.RampTime = args.dt

\* the indices at which the power is DP, and those up to the start of the ramp
FullPower == {i \in 0..(run[FALSE].npts - 1) : bess_p(args, i) = DP}
BeforeRamp ==
  {i \in 0..(run[FALSE].npts - 1) :
     TimeAt(i, bess_tmax(args), run[FALSE].npts) <= PStart}

\* the static voltage change get_voltage(RPU, XPU, DP, 0, 1) - 1
StaticChange == get_voltage(RPU, XPU, DP, 0, Scale).vpu - Scale

\* Q, Verr and Vref rest until the ramp, and the first point at full power
\* still has Q = 0 and the static voltage change as Verr
NoBenefit(b) ==
  /\ \A i \in BeforeRamp :
       /\ At(run[b].q, i) = 0
       /\ At(run[b].verr, i) = 0
       /\ At(run[b].vref, i) = Scale
  /\ FullPower # {} =>
       LET k == CHOOSE i \in FullPower : \A j \in FullPower : i <= j
       IN  /\ At(run[b].q, k) = 0
           /\ At(run[b].verr, k) = StaticChange
           /\ \E i \in 0..(run[b].npts - 1) :
                At(run[b].verr, i) >= StaticChange

RampOnTimeAxis ==
  /\ ~OutOfPolicy
  /\ bess_tmax(args) % args.dt = 0
  /\ PStart % args.dt = 0

=============================================================================
